---------------------------- MODULE Spec2Model ----------------------------
(***************************************************************************)
(* Model of the mulberry phenology / frost-damage code.                    *)
(*                                                                         *)
(*   src/src/phen.py          predict_budburst and its helpers             *)
(*   src/src/frost_damage.py  compute_cumulative_frost_damage and helpers  *)
(*                                                                         *)
(* Two specifications share the module:                                    *)
(*   Spec       one call of predict_budburst, one loop iteration a step    *)
(*   SpecFrost  one call of compute_cumulative_frost_damage, one statement *)
(*              of the function a step                                     *)
(*                                                                         *)
(* Numbers.  Temperatures, T_base, T_crit and F_mature are integers.       *)
(* alpha is counted in quarters (alpha = alpha4 / 4), so forcing units,    *)
(* forcing_sum and forcing_threshold are counted in quarters as well: all  *)
(* of them are dyadic, and the float arithmetic of the code is exact on    *)
(* them.  Latitudes are -90, 0 and 90, where calculate_photoperiod         *)
(* returns exactly 0.0, 12.0 or 24.0.  A phenological stage is the         *)
(* fraction num/den with den > 0, or NaN (0/0 under F_mature = 0).         *)
(***************************************************************************)
EXTENDS Integers, Sequences, FiniteSets, TLC

\* Longest daily series passed to predict_budburst.
MaxLen == 3
\* Longest hourly series passed to compute_cumulative_frost_damage.
MaxHours == 3

VARIABLES
    \* ---- predict_budburst (phen.py) ----
    df,                 \* argument: rows [date, temperature], in any order
    latitude,           \* argument
    chilling_threshold, \* argument
    forcing_threshold,  \* argument, in quarters
    T_base,             \* argument
    alpha,              \* argument, in quarters
    rows,               \* df after sort_values('date').reset_index(drop=True)
    idx,                \* number of rows the for loop has consumed
    chilling_sum,
    forcing_sum,        \* in quarters
    budburst_date,      \* None or <<date>>
    chilling_phase,
    pc,                 \* "idle" | "sort" | "loop" | "done"
    \* ---- compute_cumulative_frost_damage (frost_damage.py) ----
    hourly,             \* argument df: rows [ts, temperature], index sorted
    budburst_time,      \* argument
    end_time,           \* argument
    T_crit,             \* argument
    T_base_h,           \* argument T_base
    F_mature,           \* argument
    df_period,          \* the local frame: its rows (index, temperature) and the added columns
    total_damage,       \* the returned total, a fraction; None before the return
    fpc                 \* "idle" | "filter" | "forcing" | "stage" | "damage" | "total" | "done"

phenVars == <<df, latitude, chilling_threshold, forcing_threshold, T_base, alpha,
              rows, idx, chilling_sum, forcing_sum, budburst_date,
              chilling_phase, pc>>
frostVars == <<hourly, budburst_time, end_time, T_crit, T_base_h, F_mature,
               df_period, total_damage, fpc>>
vars == <<phenVars, frostVars>>

\* Python's None, and a present optional value.
None == << >>
Some(x) == <<x>>

-----------------------------------------------------------------------------
(* Input domains                                                           *)

\* Day ordinals (day 1 = 1 January of the first year, 365-day years):
\* 27 October, 6 December, 22 March (day of year 81), 30 April.
Dates == {300, 340, 446, 485}
\* Daily means: below the chilling band, inside it, above T_base.
Temps == {-1, 3, 9}
Latitudes == {-90, 0, 90}
ChillingThresholds == {-1, 0, 2}
\* forcing_threshold in quarters: -2, 0 and 10 forcing units.
ForcingThresholds == {-8, 0, 40}
\* alpha in quarters: 0 and 0.25.
Alphas == {0, 1}
TBases == {5}

DailyRows == [date : Dates, temperature : Temps]

DistinctDates(s) == \A i, j \in 1..Len(s) : i # j => s[i].date # s[j].date

DailySeries ==
    {s \in UNION {[1..n -> DailyRows] : n \in 0..MaxLen} : DistinctDates(s)}

-----------------------------------------------------------------------------
(* phen.py                                                                 *)

\* date.timetuple().tm_yday
DayOfYear(date) == ((date - 1) % 365) + 1

\* Sign of sin(2*pi*(day_of_year - 81)/365), the sign of the declination.
DeclSign(day_of_year) ==
    LET x == day_of_year - 81
    IN  IF x = 0 THEN 0
        ELSE IF x > 0 /\ 2 * x < 365 THEN 1
        ELSE -1

\* calculate_photoperiod at the latitudes of Latitudes.  tan(lat) is 0 at the
\* equator, so cos_omega = 0 and the day is 12 h.  At a pole tan(lat) is
\* about +-1.6e16, so -tan(lat)*tan(decl) clips to -1 or 1 unless decl = 0:
\* omega is pi (24 h) or 0 (0 h).
calculate_photoperiod(date, lat) ==
    LET d == DeclSign(DayOfYear(date))
        latSign == IF lat > 0 THEN 1 ELSE IF lat < 0 THEN -1 ELSE 0
        cosSign == -(latSign * d)
    IN  IF cosSign = 0 THEN 12
        ELSE IF cosSign < 0 THEN 24
        ELSE 0

\* Mutant of forcing_unit: the T > T_base guard is dropped.
forcing_unit_unguarded(T, photoperiod, Tb, a4) ==
    (T - Tb) * (4 + a4 * (photoperiod - 12))

chilling_unit(T) == IF 0 <= T /\ T <= 7 THEN 1 ELSE 0

\* In quarters: 4 * (T - T_base) * (1 + alpha * (photoperiod - 12)).
forcing_unit(T, photoperiod, Tb, a4) ==
    IF T > Tb
    THEN (T - Tb) * (4 + a4 * (photoperiod - 12))
    ELSE 0

\* Insert row r into the date-sorted sequence s.
RECURSIVE InsertByDate(_, _)
InsertByDate(r, s) ==
    IF s = << >> THEN <<r>>
    ELSE IF r.date < Head(s).date THEN <<r>> \o s
    ELSE <<Head(s)>> \o InsertByDate(r, Tail(s))

RECURSIVE SortAsc(_)
SortAsc(s) ==
    IF s = << >> THEN << >>
    ELSE InsertByDate(Head(s), SortAsc(Tail(s)))

\* Mutant of sort_values: the frame is used in the order given.
sort_values_skipped(s) == s

\* df.sort_values('date').reset_index(drop=True)
sort_values(s) == SortAsc(s)

InitPhenArgs ==
    /\ df \in DailySeries
    /\ latitude \in Latitudes
    /\ chilling_threshold \in ChillingThresholds
    /\ forcing_threshold \in ForcingThresholds
    /\ T_base \in TBases
    /\ alpha \in Alphas

PhenLocalsUnset ==
    /\ rows = << >>
    /\ idx = 0
    /\ chilling_sum = 0
    /\ forcing_sum = 0
    /\ budburst_date = None
    /\ chilling_phase = TRUE

PhenIdle ==
    /\ df = << >>
    /\ latitude = 0
    /\ chilling_threshold = 0
    /\ forcing_threshold = 0
    /\ T_base = 0
    /\ alpha = 0
    /\ PhenLocalsUnset
    /\ pc = "idle"

phenArgs == <<df, latitude, chilling_threshold, forcing_threshold, T_base, alpha>>

\* Lines 104-109: sort, then initialise the accumulators.
SortValues ==
    /\ pc = "sort"
    /\ rows' = sort_values(df)
    /\ idx' = 0
    /\ chilling_sum' = 0
    /\ forcing_sum' = 0
    /\ budburst_date' = None
    /\ chilling_phase' = TRUE
    /\ pc' = "loop"
    /\ UNCHANGED <<phenArgs, frostVars>>

\* Mutant of ChillingStep: the record that completes chilling falls through
\* into the forcing branch.
ChillingStepFallsThrough ==
    /\ pc = "loop"
    /\ idx < Len(rows)
    /\ chilling_phase
    /\ LET current_date == rows[idx + 1].date
           T == rows[idx + 1].temperature
           cs == chilling_sum + chilling_unit(T)
           fs == forcing_unit(T, calculate_photoperiod(current_date, latitude),
                              T_base, alpha)
           met == cs >= chilling_threshold
       IN  /\ chilling_sum' = cs
           /\ chilling_phase' = ~met
           /\ forcing_sum' = IF met THEN fs ELSE forcing_sum
           /\ budburst_date' = IF met /\ fs >= forcing_threshold
                               THEN Some(current_date) ELSE budburst_date
           /\ pc' = IF met /\ fs >= forcing_threshold THEN "done" ELSE pc
    /\ idx' = idx + 1
    /\ UNCHANGED <<phenArgs, rows, frostVars>>

\* Mutant of ChillingStep: the threshold test is strict.
ChillingStepStrict ==
    /\ pc = "loop"
    /\ idx < Len(rows)
    /\ chilling_phase
    /\ LET T == rows[idx + 1].temperature
           cs == chilling_sum + chilling_unit(T)
       IN  /\ chilling_sum' = cs
           /\ chilling_phase' = ~(cs > chilling_threshold)
           /\ forcing_sum' = IF cs > chilling_threshold THEN 0 ELSE forcing_sum
    /\ idx' = idx + 1
    /\ UNCHANGED <<phenArgs, rows, budburst_date, pc, frostVars>>

\* Lines 111-124: one iteration of the loop in the chilling phase.
ChillingStep ==
    /\ pc = "loop"
    /\ idx < Len(rows)
    /\ chilling_phase
    /\ LET T == rows[idx + 1].temperature
           cs == chilling_sum + chilling_unit(T)
       IN  /\ chilling_sum' = cs
           /\ chilling_phase' = ~(cs >= chilling_threshold)
           /\ forcing_sum' = IF cs >= chilling_threshold THEN 0 ELSE forcing_sum
    /\ idx' = idx + 1
    /\ UNCHANGED <<phenArgs, rows, budburst_date, pc, frostVars>>

\* Mutant of ForcingStep: no break, the loop runs on after budburst.
ForcingStepNoBreak ==
    /\ pc = "loop"
    /\ idx < Len(rows)
    /\ ~chilling_phase
    /\ LET current_date == rows[idx + 1].date
           T == rows[idx + 1].temperature
           photoperiod == calculate_photoperiod(current_date, latitude)
           fs == forcing_sum + forcing_unit(T, photoperiod, T_base, alpha)
       IN  /\ forcing_sum' = fs
           /\ budburst_date' = IF fs >= forcing_threshold
                               THEN Some(current_date) ELSE budburst_date
    /\ idx' = idx + 1
    /\ UNCHANGED <<phenArgs, rows, chilling_sum, chilling_phase, pc, frostVars>>

\* Lines 111-116, 125-130: one iteration in the forcing phase; break on budburst.
ForcingStep ==
    /\ pc = "loop"
    /\ idx < Len(rows)
    /\ ~chilling_phase
    /\ LET current_date == rows[idx + 1].date
           T == rows[idx + 1].temperature
           photoperiod == calculate_photoperiod(current_date, latitude)
           fs == forcing_sum + forcing_unit(T, photoperiod, T_base, alpha)
       IN  /\ forcing_sum' = fs
           /\ budburst_date' = IF fs >= forcing_threshold
                               THEN Some(current_date) ELSE budburst_date
           /\ pc' = IF fs >= forcing_threshold THEN "done" ELSE pc
    /\ idx' = idx + 1
    /\ UNCHANGED <<phenArgs, rows, chilling_sum, chilling_phase, frostVars>>

\* Lines 111, 132: the series is exhausted; return budburst_date.
Return ==
    /\ pc = "loop"
    /\ idx = Len(rows)
    /\ pc' = "done"
    /\ UNCHANGED <<phenArgs, rows, idx, chilling_sum, forcing_sum, budburst_date,
                   chilling_phase, frostVars>>


-----------------------------------------------------------------------------
(* frost_damage.py                                                         *)

\* Timestamps, in hours.
Hours == {1, 2, 3, 4}
\* Hourly temperatures: frost, mild, above T_base.
HourlyTemps == {-3, 2, 8}
WindowTimes == {0, 1, 2, 3, 4, 5}
TCrits == {0, 2}
HourlyTBases == {5}
FMatures == {-4, 0, 3, 4}

HourlyRows == [ts : Hours, temperature : HourlyTemps]

Increasing(s) == \A i \in 1..(Len(s) - 1) : s[i].ts < s[i + 1].ts

\* Frames with a sorted, duplicate-free datetime index.
HourlySeries ==
    {s \in UNION {[1..n -> HourlyRows] : n \in 0..MaxHours} : Increasing(s)}

\* A float as the fraction num/den, den >= 0: den = 0 is NaN (num = 0) or an
\* infinity (the sign of num), as x/0 is for a pandas Series.
Frac(n, d) == [num |-> n, den |-> d]
NaN == Frac(0, 0)
IsNaN(x) == x.den = 0 /\ x.num = 0

\* Series / scalar, elementwise, for a non-negative integer c.
Divide(c, F) ==
    IF F > 0 THEN Frac(c, F)
    ELSE IF F < 0 THEN Frac(-c, -F)
    ELSE IF c > 0 THEN Frac(1, 0)
    ELSE NaN

\* x > 1 as floats compare: False for NaN.
GreaterThanOne(x) == IF x.den = 0 THEN x.num > 0 ELSE x.num > x.den

\* a + b
AddFrac(a, b) == Frac(a.num * b.den + b.num * a.den, a.den * b.den)

Max0(x) == IF x > 0 THEN x ELSE 0

\* index.searchsorted(label, side='left'): the rows stamped before label.
RECURSIVE SearchSortedLeft(_, _)
SearchSortedLeft(s, label) ==
    IF s = << >> \/ ~(Head(s).ts < label) THEN 0
    ELSE 1 + SearchSortedLeft(Tail(s), label)

\* index.searchsorted(label, side='right'): the rows stamped at or before label.
RECURSIVE SearchSortedRight(_, _)
SearchSortedRight(s, label) ==
    IF s = << >> \/ ~(Head(s).ts <= label) THEN 0
    ELSE 1 + SearchSortedRight(Tail(s), label)

\* Mutant of LocSlice: the stop label is excluded, as in a positional slice.
LocSliceExclusiveStop(s, start, stop) ==
    LET lo == SearchSortedLeft(s, start)
        hi == SearchSortedLeft(s, stop)
    IN  IF hi <= lo THEN << >> ELSE SubSeq(s, lo + 1, hi)

\* Mutant of LocSlice: reversed labels are put in order first.
LocSliceReordered(s, start, stop) ==
    LET a == IF start <= stop THEN start ELSE stop
        b == IF start <= stop THEN stop ELSE start
        lo == SearchSortedLeft(s, a)
        hi == SearchSortedRight(s, b)
    IN  IF hi <= lo THEN << >> ELSE SubSeq(s, lo + 1, hi)

\* df.loc[start:stop] on a monotonic index: the positional slice
\* [searchsorted(start, 'left') : searchsorted(stop, 'right')].
LocSlice(s, start, stop) ==
    LET lo == SearchSortedLeft(s, start)
        hi == SearchSortedRight(s, stop)
    IN  IF hi <= lo THEN << >> ELSE SubSeq(s, lo + 1, hi)

\* np.maximum(0, temps - T_base), elementwise over the rows of a frame.
ForcingUnits(frame, Tb) ==
    [i \in 1..Len(frame) |-> Max0(frame[i].temperature - Tb)]

\* Series.cumsum()
RECURSIVE SumTo(_, _)
SumTo(s, i) == IF i = 0 THEN 0 ELSE SumTo(s, i - 1) + s[i]

cumsum(s) == [i \in 1..Len(s) |-> SumTo(s, i)]

\* compute_forcing on the temperature column of a frame.
compute_forcing(frame, Tb) == cumsum(ForcingUnits(frame, Tb))

\* Mutant of CapAtOne: the stage is not capped.
CapAtOneMissing(x) == x

\* s[s > 1] = 1 for one element.
CapAtOne(x) ==
    IF GreaterThanOne(x)
    THEN (IF x.den > 0 THEN Frac(x.den, x.den) ELSE Frac(1, 1))
    ELSE x

compute_phenological_stage(cum, F) ==
    [i \in 1..Len(cum) |-> CapAtOne(Divide(cum[i], F))]

\* 1 - s
sensitivity_function(x) ==
    IF x.den = 0 THEN Frac(-x.num, 0) ELSE Frac(x.den - x.num, x.den)

\* Mutant of hourly_frost_damage: the deficit is not floored at 0.
hourly_frost_damage_signed(T_hour, x, Tc) ==
    LET deficit == Tc - T_hour
        sens == sensitivity_function(x)
    IN  IF sens.den = 0
        THEN (IF deficit = 0 THEN NaN ELSE sens)
        ELSE Frac(sens.num * deficit, sens.den)

\* sensitivity_function(s) * max(0, T_crit - T_hour); inf * 0 is NaN.
hourly_frost_damage(T_hour, x, Tc) ==
    LET deficit == Max0(Tc - T_hour)
        sens == sensitivity_function(x)
    IN  IF sens.den = 0
        THEN (IF deficit = 0 THEN NaN ELSE sens)
        ELSE Frac(sens.num * deficit, sens.den)

\* Series.sum(): NaN entries are skipped, the sum of nothing is 0.
RECURSIVE SeriesSum(_)
SeriesSum(s) ==
    IF s = << >> THEN Frac(0, 1)
    ELSE IF IsNaN(Head(s)) THEN SeriesSum(Tail(s))
    ELSE AddFrac(Head(s), SeriesSum(Tail(s)))

\* The columns compute_cumulative_frost_damage adds, not yet assigned.
NoColumns == [forcing |-> << >>, cum_forcing |-> << >>, s |-> << >>,
              hourly_damage |-> << >>]

InitFrostArgs ==
    /\ hourly \in HourlySeries
    /\ budburst_time \in WindowTimes
    /\ end_time \in WindowTimes
    /\ T_crit \in TCrits
    /\ T_base_h \in HourlyTBases
    /\ F_mature \in FMatures

FrostIdle ==
    /\ hourly = << >>
    /\ budburst_time = 0
    /\ end_time = 0
    /\ T_crit = 0
    /\ T_base_h = 0
    /\ F_mature = 0
    /\ df_period = [index |-> << >>, cols |-> NoColumns]
    /\ total_damage = None
    /\ fpc = "idle"

frostArgs == <<hourly, budburst_time, end_time, T_crit, T_base_h, F_mature>>

\* Line 114: df_period = df.loc[budburst_time:end_time].copy()
Filter ==
    /\ fpc = "filter"
    /\ df_period' = [index |-> LocSlice(hourly, budburst_time, end_time),
                     cols |-> NoColumns]
    /\ fpc' = "forcing"
    /\ UNCHANGED <<frostArgs, total_damage, phenVars>>

\* Lines 117-118: the forcing and cum_forcing columns.
Forcing ==
    /\ fpc = "forcing"
    /\ LET f == ForcingUnits(df_period.index, T_base_h)
       IN  df_period' = [df_period EXCEPT !.cols.forcing = f,
                                          !.cols.cum_forcing = cumsum(f)]
    /\ fpc' = "stage"
    /\ UNCHANGED <<frostArgs, total_damage, phenVars>>

\* Line 121: the s column.
Stage ==
    /\ fpc = "stage"
    /\ df_period' = [df_period EXCEPT !.cols.s =
                        compute_phenological_stage(df_period.cols.cum_forcing, F_mature)]
    /\ fpc' = "damage"
    /\ UNCHANGED <<frostArgs, total_damage, phenVars>>

\* Lines 124-126: the hourly_damage column, row by row.  On an empty frame
\* DataFrame.apply(axis=1) calls the lambda once on an all-NaN row, gets a
\* scalar back and returns an empty Series: the column is empty.
Damage ==
    /\ fpc = "damage"
    /\ df_period' = [df_period EXCEPT !.cols.hourly_damage =
                        [i \in 1..Len(df_period.index) |->
                            hourly_frost_damage(df_period.index[i].temperature,
                                                df_period.cols.s[i], T_crit)]]
    /\ fpc' = "total"
    /\ UNCHANGED <<frostArgs, total_damage, phenVars>>

\* Lines 129-131: total_damage, and the return.
Total ==
    /\ fpc = "total"
    /\ total_damage' = Some(SeriesSum(df_period.cols.hourly_damage))
    /\ fpc' = "done"
    /\ UNCHANGED <<frostArgs, df_period, phenVars>>

-----------------------------------------------------------------------------
(* Specifications                                                          *)

Init ==
    /\ InitPhenArgs
    /\ PhenLocalsUnset
    /\ pc = "sort"
    /\ FrostIdle

Next == SortValues \/ ChillingStep \/ ForcingStep \/ Return

Spec == Init /\ [][Next]_vars

InitFrost ==
    /\ InitFrostArgs
    /\ df_period = [index |-> << >>, cols |-> NoColumns]
    /\ total_damage = None
    /\ fpc = "filter"
    /\ PhenIdle

NextFrost == Filter \/ Forcing \/ Stage \/ Damage \/ Total

SpecFrost == InitFrost /\ [][NextFrost]_vars


-----------------------------------------------------------------------------
(* Reference definitions for predict_budburst, stated over a whole date-   *)
(* ordered series instead of step by step.                                 *)

\* Days among the first i of r whose temperature lies in the chilling band.
ChillDays(r, i) ==
    Cardinality({j \in 1..i : 0 <= r[j].temperature /\ r[j].temperature <= 7})

\* Position of the record on which chilling first reaches the threshold;
\* 0 when it never does.
ChillDoneIdx(r) ==
    LET reached == {i \in 1..Len(r) : ChillDays(r, i) >= chilling_threshold}
    IN  IF reached = {} THEN 0
        ELSE CHOOSE i \in reached : \A j \in reached : i <= j

\* Forcing unit (in quarters) of record i of r.
UnitOf(r, i) ==
    forcing_unit(r[i].temperature, calculate_photoperiod(r[i].date, latitude),
                 T_base, alpha)

\* Sum of the forcing units of records k+1 .. j of r.
RECURSIVE ForcingFrom(_, _, _)
ForcingFrom(r, k, j) ==
    IF j <= k THEN 0 ELSE ForcingFrom(r, k, j - 1) + UnitOf(r, j)

\* Positions after the chilling-completion record where the running forcing
\* sum is at or above the threshold.
BudburstPositions(r) ==
    LET k == ChillDoneIdx(r)
    IN  IF k = 0 THEN {}
        ELSE {j \in (k + 1)..Len(r) : ForcingFrom(r, k, j) >= forcing_threshold}

ExpectedBudburst(r) ==
    LET J == BudburstPositions(r)
    IN  IF J = {} THEN None
        ELSE Some(r[CHOOSE j \in J : \A m \in J : j <= m].date)

\* The rows of s in date order, by rank: row i is the one with i-1 earlier rows.
DateSorted(s) ==
    [i \in 1..Len(s) |->
        CHOOSE r \in {s[j] : j \in 1..Len(s)} :
            Cardinality({q \in {s[j] : j \in 1..Len(s)} : q.date < r.date}) = i - 1]

Started == pc \in {"loop", "done"}

\* Photoperiod factor, in quarters, of record i of rows.
FactorOf(i) == 4 + alpha * (calculate_photoperiod(rows[i].date, latitude) - 12)

-----------------------------------------------------------------------------
(* Claims about predict_budburst (specification Spec)                      *)

\* C1: the record on which chilling_sum first reaches chilling_threshold adds
\* nothing to forcing_sum: after that record forcing_sum is 0 and the machine
\* is in the forcing phase with no budburst date; after the next record
\* forcing_sum is that record's forcing unit; and budburst_date is never the
\* date of the record that completed chilling.
C1_TransitionDayAddsNoForcing ==
    Started =>
        LET k == ChillDoneIdx(rows)
        IN  k # 0 =>
              /\ idx = k => (forcing_sum = 0 /\ ~chilling_phase /\ budburst_date = None)
              /\ idx = k + 1 => forcing_sum = UnitOf(rows, k + 1)
              /\ budburst_date # Some(rows[k].date)

\* C1 witness: the record after the one that completed chilling has just been
\* processed, added a non-zero forcing unit and set budburst.
C1_Witness ==
    /\ pc = "done"
    /\ ChillDoneIdx(rows) # 0
    /\ idx = ChillDoneIdx(rows) + 1
    /\ forcing_sum # 0
    /\ budburst_date = Some(rows[idx].date)

\* C2: the returned value is the date of the earliest record processed in the
\* forcing phase at which the running forcing sum is >= forcing_threshold, the
\* loop stopped on that record, and when there is no such record (empty
\* series, series ending in chilling or in forcing) the result is None and
\* every record was visited.
C2_ReturnsEarliestCrossing ==
    pc = "done" =>
        /\ budburst_date = ExpectedBudburst(rows)
        /\ budburst_date # None => (idx >= 1 /\ budburst_date = Some(rows[idx].date))
        /\ budburst_date = None => idx = Len(rows)

\* C2 witness: budburst returned with records left unvisited.
C2_Witness ==
    /\ pc = "done"
    /\ budburst_date # None
    /\ idx < Len(rows)

\* C3 as stated: with chilling_threshold <= 0 the machine is in the forcing
\* phase after the first record; with forcing_threshold <= 0 budburst is set
\* on the first record processed in the forcing phase, whatever that record.
C3_ImmediateTransition ==
    Started =>
        /\ (chilling_threshold <= 0 /\ idx >= 1) => ~chilling_phase
        /\ LET k == ChillDoneIdx(rows)
           IN  (forcing_threshold <= 0 /\ k # 0 /\ idx >= k + 1)
                  => budburst_date = Some(rows[k + 1].date)

\* C3 amended: as C3, but budburst on the first forcing-phase record is
\* claimed only when that record's forcing unit is >= forcing_threshold (it
\* always is when T <= T_base or the photoperiod factor is non-negative).
C3_ImmediateTransitionUnlessNegativeUnit ==
    Started =>
        /\ (chilling_threshold <= 0 /\ idx >= 1) => ~chilling_phase
        /\ LET k == ChillDoneIdx(rows)
           IN  (forcing_threshold <= 0 /\ k # 0 /\ idx >= k + 1
                  /\ UnitOf(rows, k + 1) >= forcing_threshold)
                  => budburst_date = Some(rows[k + 1].date)

\* C3 witness: both thresholds <= 0, a first record outside the chilling band
\* and a second record at or below T_base, and budburst set on the second.
C3_Witness ==
    /\ pc = "done"
    /\ chilling_threshold <= 0
    /\ forcing_threshold <= 0
    /\ idx = 2
    /\ rows[1].temperature < 0
    /\ rows[2].temperature <= T_base
    /\ budburst_date = Some(rows[2].date)

\* C4 as stated: both accumulators are non-negative after every step.
C4_AccumulatorsNonNegative ==
    chilling_sum >= 0 /\ forcing_sum >= 0

\* C4 amended: chilling_sum is non-negative after every step, and forcing_sum
\* is non-negative as long as every record processed so far in the forcing
\* phase with T > T_base had a photoperiod factor 1 + alpha*(photoperiod - 12)
\* that is not negative.
C4_NonNegativeUnlessNegativeFactor ==
    /\ chilling_sum >= 0
    /\ Started =>
         LET k == ChillDoneIdx(rows)
         IN  (k # 0 /\ \A i \in (k + 1)..idx :
                          rows[i].temperature > T_base => FactorOf(i) >= 0)
                => forcing_sum >= 0

\* C4 witness: two records above T_base processed in the forcing phase under
\* a photoperiod-modulated factor (alpha > 0), forcing_sum positive.
C4_Witness ==
    /\ Started
    /\ alpha > 0
    /\ latitude # 0
    /\ ChillDoneIdx(rows) # 0
    /\ idx = ChillDoneIdx(rows) + 2
    /\ rows[idx].temperature > T_base
    /\ rows[idx - 1].temperature > T_base
    /\ FactorOf(idx) > 4
    /\ forcing_sum > 0

\* C10: the result for the rows in the order given equals the result for the
\* same rows in date order.
C10_OrderIndependent ==
    pc = "done" => budburst_date = ExpectedBudburst(DateSorted(df))

\* C10 witness: a series passed out of date order, for which a date is returned.
C10_Witness ==
    /\ pc = "done"
    /\ df # DateSorted(df)
    /\ Len(df) >= 3
    /\ budburst_date # None


-----------------------------------------------------------------------------
(* Reference definitions for compute_cumulative_frost_damage               *)

\* Comparisons of finite fractions (den > 0).
IsFinite(x) == x.den > 0
FracLeq(a, b) == a.num * b.den <= b.num * a.den
IsOne(x) == IsFinite(x) /\ x.num = x.den
IsZero(x) == IsFinite(x) /\ x.num = 0
NonNegative(x) == IsFinite(x) /\ x.num >= 0

InWindow(r) == budburst_time <= r.ts /\ r.ts <= end_time

\* The records of the input stamped inside [budburst_time, end_time].
WindowRecords == SelectSeq(hourly, InWindow)

\* Degrees above T_base summed over the input records stamped in
\* [budburst_time, t].
RECURSIVE ForcingSince(_, _)
ForcingSince(s, t) ==
    IF s = << >> THEN 0
    ELSE (IF budburst_time <= Head(s).ts /\ Head(s).ts <= t
             /\ Head(s).temperature > T_base_h
          THEN Head(s).temperature - T_base_h ELSE 0)
         + ForcingSince(Tail(s), t)

Rows == df_period.index
StageCol == df_period.cols.s
DamageCol == df_period.cols.hourly_damage
StageDone == fpc \in {"damage", "total", "done"}
DamageDone == fpc \in {"total", "done"}

-----------------------------------------------------------------------------
(* Claims about compute_cumulative_frost_damage (specification SpecFrost)  *)

\* C5: for F_mature > 0 the stage series is the prefix sum of
\* max(0, T - T_base) divided by F_mature and capped at 1; every stage value
\* lies in [0, 1], the series is non-decreasing, and once it is 1 it stays 1.
C5_StageBoundedMonotone ==
    (StageDone /\ F_mature > 0) =>
        /\ StageCol = compute_phenological_stage(
                          compute_forcing(Rows, T_base_h), F_mature)
        /\ Len(StageCol) = Len(Rows)
        /\ \A t \in 1..Len(StageCol) :
              /\ IsFinite(StageCol[t])
              /\ StageCol[t].num >= 0
              /\ StageCol[t].num <= StageCol[t].den
        /\ \A t \in 1..(Len(StageCol) - 1) :
              /\ FracLeq(StageCol[t], StageCol[t + 1])
              /\ IsOne(StageCol[t]) => IsOne(StageCol[t + 1])

\* C5 witness: a stage series that rises from strictly between 0 and 1 to
\* the cap (cumulative forcing beyond F_mature) and stays there.
C5_Witness ==
    /\ fpc = "done"
    /\ F_mature > 0
    /\ Len(StageCol) = 3
    /\ StageCol[1].num > 0 /\ StageCol[1].num < StageCol[1].den
    /\ df_period.cols.cum_forcing[2] > F_mature
    /\ IsOne(StageCol[2])
    /\ IsOne(StageCol[3])

\* C6: for F_mature > 0 every hourly damage is non-negative, it is zero at
\* every hour with T_hour >= T_crit and at every hour whose stage is 1, and
\* the returned total is non-negative.
C6_DamageNonNegative ==
    (DamageDone /\ F_mature > 0) =>
        /\ Len(DamageCol) = Len(Rows)
        /\ \A i \in 1..Len(DamageCol) :
              /\ NonNegative(DamageCol[i])
              /\ (Rows[i].temperature >= T_crit \/ IsOne(StageCol[i]))
                    => IsZero(DamageCol[i])
        /\ fpc = "done" => NonNegative(total_damage[1])

\* C6 witness: a returned trace with a damaged hour, a frost hour at stage 1
\* and an hour at exactly T_crit.
C6_Witness ==
    /\ fpc = "done"
    /\ F_mature > 0
    /\ \E i \in 1..Len(DamageCol) : DamageCol[i].num > 0
    /\ \E i \in 1..Len(DamageCol) :
          Rows[i].temperature < T_crit /\ IsOne(StageCol[i])
    /\ total_damage[1].num > 0

\* C7: the trace holds, in order, exactly the input records stamped in
\* [budburst_time, end_time], both ends included, and cumulative forcing at
\* each of them is the forcing summed from budburst_time on.
C7_WindowInclusive ==
    /\ fpc \in {"forcing", "stage", "damage", "total", "done"}
          => Rows = WindowRecords
    /\ fpc \in {"stage", "damage", "total", "done"}
          => /\ Len(df_period.cols.cum_forcing) = Len(Rows)
             /\ \A i \in 1..Len(Rows) :
                   df_period.cols.cum_forcing[i] = ForcingSince(hourly, Rows[i].ts)

\* C7 witness: a warm record before budburst_time is left out, and records
\* stamped exactly budburst_time and exactly end_time are in the trace.
C7_Witness ==
    /\ fpc = "done"
    /\ Len(hourly) = 3
    /\ hourly[1].ts < budburst_time
    /\ hourly[1].temperature > T_base_h
    /\ hourly[2].ts = budburst_time
    /\ hourly[3].ts = end_time
    /\ hourly[3].temperature > T_base_h
    /\ Len(Rows) = 2

\* C8: an empty window (end_time < budburst_time, or no record in range)
\* gives total_damage = 0 and an empty trace.
C8_EmptyWindow ==
    (fpc = "done" /\ WindowRecords = << >>) =>
        /\ total_damage = Some(Frac(0, 1))
        /\ Rows = << >>
        /\ df_period.cols = NoColumns

\* C8 witness: a call returned with end_time < budburst_time and a record
\* stamped between the two.
C8_Witness ==
    /\ fpc = "done"
    /\ end_time < budburst_time
    /\ \E i \in 1..Len(hourly) :
          end_time <= hourly[i].ts /\ hourly[i].ts <= budburst_time
    /\ total_damage = Some(Frac(0, 1))

\* C9: with F_mature <= 0 the call ends in an error: no stage series is
\* produced and no total_damage is returned.
C9_NonPositiveFMatureRejected ==
    F_mature <= 0 => (StageCol = << >> /\ total_damage = None)

=============================================================================
